---- MODULE Spec2Model ----
(***************************************************************************)
(* Model of pyccel/parallel/mpi.py: the classes that represent MPI calls   *)
(* as expression nodes and render them, through _sympystr, into a call     *)
(* name and an ordered argument tuple.                                     *)
(*                                                                         *)
(* An expression node is a record.  A lowering result is either            *)
(*   [status |-> "ok", form, name, args]   the tuple `args` the method     *)
(*                                         builds, before it is joined     *)
(*   [status |-> "raise", exc, msg]        the exception that left the     *)
(*                                         method; nothing was returned    *)
(***************************************************************************)
EXTENDS Integers, Sequences, FiniteSets

\* ---------------------------------------------------------------- bounds
MaxExtent == 2      \* literal extents range over 0..MaxExtent
MaxRank   == 2      \* shapes given as a tuple have at most MaxRank extents
MaxOps    == 2      \* operation nodes alive at the same time

\* ------------------------------------------------- symbolic expressions
\* Names of the integer variables that may occur as an extent (`n` in the
\* docstrings' shape=(n,2)).
Syms == {"n", "m"}

NoExps == [s \in Syms |-> 0]

\* An integer literal and a symbol, as the monomial coef * prod s^exps[s].
Lit(k) == [coef |-> k, exps |-> NoExps]
Sym(s) == [coef |-> 1, exps |-> [t \in Syms |-> IF t = s THEN 1 ELSE 0]]

\* `n *= i`: the product of two monomials, in the normal form a symbolic
\* product has (coefficients multiplied, equal symbols collected, 0 absorbs).
Mul(a, b) ==
    IF a.coef * b.coef = 0
    THEN Lit(0)
    ELSE [coef |-> a.coef * b.coef,
          exps |-> [s \in Syms |-> a.exps[s] + b.exps[s]]]

\* --------------------------------------------------------------- results
Ok(v) == [status |-> "ok", val |-> v]
Raise(e, m) == [status |-> "raise", exc |-> e, msg |-> m]

\* The two TypeErrors of this module and the errors of the accessors.
UnresolvableShape ==
    Raise("TypeError", "shape is only defined for Variable, IndexedVariable, IndexedElement")
UnsupportedType == Raise("TypeError", "Uncovered datatype : ")
IndexError == Raise("IndexError", "tuple index out of range")
AttributeError == Raise("AttributeError", "dtype")

\* ------------------------------------------------------------- get_shape
\* shape_loop with `n = i` for `n *= i`.
shape_loop_assign(n, shape) ==
    IF shape = <<>> THEN n ELSE shape[Len(shape)]

\* for i in shape: n *= i      (n is the product so far)
RECURSIVE shape_loop(_, _)
shape_loop(n, shape) ==
    IF shape = <<>> THEN n
    ELSE shape_loop(Mul(n, Head(shape)), Tail(shape))

\* get_shape counting 1 for what is not a variable, in place of raising.
RECURSIVE get_shape_default(_)
get_shape_default(expr) ==
    IF expr.kind \notin {"Variable", "IndexedVariable", "IndexedElement"}
    THEN Ok(Lit(1))
    ELSE IF expr.kind \in {"Variable", "IndexedVariable"}
    THEN LET shape == expr.shape IN
         IF shape.form = "None" THEN Ok(Lit(1))
         ELSE IF shape.form = "tuple" THEN Ok(shape_loop(Lit(1), shape.ext))
         ELSE Ok(shape.ext[1])
    ELSE get_shape_default(expr.base)

\* get_shape counting an indexed element as the one element it names.
get_shape_element(expr) ==
    IF expr.kind \notin {"Variable", "IndexedVariable", "IndexedElement"}
    THEN UnresolvableShape
    ELSE IF expr.kind \in {"Variable", "IndexedVariable"}
    THEN LET shape == expr.shape IN
         IF shape.form = "None" THEN Ok(Lit(1))
         ELSE IF shape.form = "tuple" THEN Ok(shape_loop(Lit(1), shape.ext))
         ELSE Ok(shape.ext[1])
    ELSE Ok(Lit(1))

\* get_shape whose first test lets integer literals through, as scalars.
RECURSIVE get_shape_integer(_)
get_shape_integer(expr) ==
    IF expr.kind \notin {"Variable", "IndexedVariable", "IndexedElement", "Integer"}
    THEN UnresolvableShape
    ELSE IF expr.kind \in {"Variable", "IndexedVariable"}
    THEN LET shape == expr.shape IN
         IF shape.form = "None" THEN Ok(Lit(1))
         ELSE IF shape.form = "tuple" THEN Ok(shape_loop(Lit(1), shape.ext))
         ELSE Ok(shape.ext[1])
    ELSE IF expr.kind = "IndexedElement" THEN get_shape_integer(expr.base)
    ELSE Ok(Lit(1))

\* get_shape(expr): the element count of a variable.
RECURSIVE get_shape(_)
get_shape(expr) ==
    IF expr.kind \notin {"Variable", "IndexedVariable", "IndexedElement"}
    THEN UnresolvableShape
    ELSE IF expr.kind \in {"Variable", "IndexedVariable"}
    THEN LET shape == expr.shape IN
         IF shape.form = "None" THEN Ok(Lit(1))
         ELSE IF shape.form = "tuple" THEN Ok(shape_loop(Lit(1), shape.ext))
         ELSE Ok(shape.ext[1])
    ELSE get_shape(expr.base)

\* ---------------------------------------------------------- mpi_datatype
\* mpi_datatype with a branch for characters, named after MPI_CHARACTER.
mpi_datatype_character(dtype) ==
    IF dtype = "NativeInteger" THEN Ok([kind |-> "str", name |-> "MPI_INT"])
    ELSE IF dtype = "NativeFloat" THEN Ok([kind |-> "str", name |-> "MPI_REAL"])
    ELSE IF dtype = "NativeDouble" THEN Ok([kind |-> "str", name |-> "MPI_DOUBLE"])
    ELSE IF dtype = "NativeBool" THEN Ok([kind |-> "str", name |-> "MPI_LOGICAL"])
    ELSE IF dtype = "NativeComplex" THEN Ok([kind |-> "str", name |-> "MPI_COMPLEX"])
    ELSE IF dtype = "NativeCharacter" THEN Ok([kind |-> "str", name |-> "MPI_CHARACTER"])
    ELSE UnsupportedType

\* mpi_datatype(dtype): the MPI datatype name of a pyccel datatype.
mpi_datatype(dtype) ==
    IF dtype = "NativeInteger" THEN Ok([kind |-> "str", name |-> "MPI_INT"])
    ELSE IF dtype = "NativeFloat" THEN Ok([kind |-> "str", name |-> "MPI_REAL"])
    ELSE IF dtype = "NativeDouble" THEN Ok([kind |-> "str", name |-> "MPI_DOUBLE"])
    ELSE IF dtype = "NativeBool" THEN Ok([kind |-> "str", name |-> "MPI_LOGICAL"])
    ELSE IF dtype = "NativeComplex" THEN Ok([kind |-> "str", name |-> "MPI_COMPLEX"])
    ELSE UnsupportedType

\* ----------------------------------------------------- expression nodes
\* pyccel datatypes: the five that mpi_datatype covers, and two it does not
\* (MPI_status_type is the datatype of MPI_STATUS).
DataTypes == {"NativeInteger", "NativeFloat", "NativeDouble", "NativeBool",
              "NativeComplex", "NativeCharacter", "MPI_status_type"}

Extents == {Lit(k) : k \in 0..MaxExtent} \cup {Sym(s) : s \in Syms}

RECURSIVE Tuples(_)
Tuples(r) ==
    IF r = 0 THEN {<<>>}
    ELSE Tuples(r - 1) \cup
         {Append(t, e) : t \in {u \in Tuples(r - 1) : Len(u) = r - 1}, e \in Extents}

\* The values the `shape` attribute takes: None, one extent that is not in
\* a list or tuple (shape=4), a tuple of extents (shape=(n,2)).
Shapes ==
    {[form |-> "None", ext |-> <<>>]}
    \cup {[form |-> "scalar", ext |-> <<e>>] : e \in Extents}
    \cup {[form |-> "tuple", ext |-> t] : t \in Tuples(MaxRank)}

Variable(dtype, name, shape) ==
    [kind |-> "Variable", name |-> name, dtype |-> dtype, shape |-> shape]
IndexedVariable(dtype, name, shape) ==
    [kind |-> "IndexedVariable", name |-> name, dtype |-> dtype, shape |-> shape]
\* base[indices]; it has the datatype of its base and no shape of its own.
IndexedElement(base, indices) ==
    [kind |-> "IndexedElement", base |-> base, indices |-> indices,
     dtype |-> base.dtype]

Indices == {<<Lit(0)>>, <<Sym("n")>>, <<Lit(1), Sym("m")>>}

\* Nodes that are not variables: an integer literal, and the constants of
\* this module.
Integer(k) == [kind |-> "Integer", value |-> k]
MPI_comm_world == [kind |-> "MPI_comm_world", name |-> "mpi_comm_world"]
MPI_proc_null == [kind |-> "MPI_proc_null", name |-> "mpi_proc_null"]
MPI_status_size == [kind |-> "MPI_status_size", name |-> "mpi_status_size"]

NonVariables == {Integer(5), MPI_comm_world, MPI_proc_null, MPI_status_size}

\* Every node get_shape and mpi_datatype are applied to in SpecPure.
AllExprs ==
    {Variable(d, "x", s) : d \in DataTypes, s \in Shapes}
    \cup {IndexedVariable(d, "x", s) : d \in DataTypes, s \in Shapes}
    \cup {IndexedElement(IndexedVariable(d, "x", s), i) :
             d \in DataTypes, s \in Shapes, i \in Indices}
    \cup NonVariables

None == [kind |-> "None"]

\* ------------------------------------------------------------ the state
VARIABLES
    MPI_ERROR,    \* module global: the variable every call reports its error in
    MPI_STATUS,   \* module global: the variable receiving calls report status in
    registry,     \* the operation nodes constructed so far
    first,        \* the first rendering of each node rendered so far, oldest first
    out,          \* the latest rendering: [op, res], or None
    expr,         \* SpecPure: the node the two functions are applied to
    count,        \* SpecPure: get_shape(expr), or None before the call
    wtype         \* SpecPure: mpi_datatype(expr.dtype), or None before the call

vars == <<MPI_ERROR, MPI_STATUS, registry, first, out, expr, count, wtype>>

\* ------------------------------------------------------------ accessors
\* self.args[i], indexed from 0 as in the source.
Arg(self, i) ==
    IF i + 1 <= Len(self.args) THEN Ok(self.args[i + 1]) ELSE IndexError

\* The `count` property of the class whose buffer is self.args[i]:
\* get_shape(self.data).
count_of(self, i) ==
    LET data == Arg(self, i) IN
    IF data.status = "raise" THEN data ELSE get_shape(data.val)

\* The `datatype` property of the class whose buffer is self.args[i]:
\* mpi_datatype(self.data.dtype).
datatype_of(self, i) ==
    LET data == Arg(self, i) IN
    IF data.status = "raise" THEN data
    ELSE IF "dtype" \notin DOMAIN data.val THEN AttributeError
    ELSE mpi_datatype(data.val.dtype)

\* The statements of a _sympystr run in order; the first one that raises
\* ends the method.  rs holds the outcome each statement has when it runs.
FirstRaise(rs) ==
    LET bad == {i \in DOMAIN rs : rs[i].status = "raise"} IN
    IF bad = {} THEN None
    ELSE rs[CHOOSE i \in bad : \A j \in bad : i <= j]

\* 'NAME ({0})'.format(', '.join(sstr(a) for a in args)): the call name and
\* the tuple `args` in order; order[k] is the statement that computed the
\* k-th argument.
Call(name, rs, order) ==
    IF FirstRaise(rs) # None THEN FirstRaise(rs)
    ELSE [status |-> "ok", form |-> "call", name |-> name,
          args |-> [k \in DOMAIN order |-> rs[order[k]].val]]

\* '{0}.{1}'.format(sstr(self.comm), name)
Property(name, comm) ==
    IF comm.status = "raise" THEN comm
    ELSE [status |-> "ok", form |-> "property", name |-> name,
          scope |-> comm.val, args |-> <<>>]

\* ------------------------------------------------------------ _sympystr
\* One operator per class; rs lists the method's statements in source order.

MPI_comm_size_sympystr(self) == Property("size", Arg(self, 0))

\* MPI_comm_rank defines no _sympystr: the node is rendered by what it
\* inherits, its class name applied to its operands.
MPI_comm_rank_sympystr(self) ==
    [status |-> "ok", form |-> "inherited", name |-> "MPI_comm_rank",
     args |-> self.args]

\* MPI_comm_recv._sympystr with args ending in (ierr, istatus).
MPI_comm_recv_sympystr_status_last(self) ==
    Call("MPI_recv",
         << Arg(self, 0), count_of(self, 0), datatype_of(self, 0),
            Arg(self, 1), Arg(self, 2), Arg(self, 3),
            Ok(MPI_ERROR), Ok(MPI_STATUS) >>,
         <<1, 2, 3, 4, 5, 6, 7, 8>>)

MPI_comm_recv_sympystr(self) ==
    Call("MPI_recv",
         << Arg(self, 0), count_of(self, 0), datatype_of(self, 0),
            Arg(self, 1), Arg(self, 2), Arg(self, 3),
            Ok(MPI_ERROR), Ok(MPI_STATUS) >>,
         <<1, 2, 3, 4, 5, 6, 8, 7>>)

\* MPI_comm_send._sympystr with args holding tag before dest.
MPI_comm_send_sympystr_tag_first(self) ==
    Call("MPI_send",
         << Arg(self, 0), count_of(self, 0), datatype_of(self, 0),
            Arg(self, 1), Arg(self, 2), Arg(self, 3),
            Ok(MPI_ERROR) >>,
         <<1, 2, 3, 5, 4, 6, 7>>)

MPI_comm_send_sympystr(self) ==
    Call("MPI_send",
         << Arg(self, 0), count_of(self, 0), datatype_of(self, 0),
            Arg(self, 1), Arg(self, 2), Arg(self, 3),
            Ok(MPI_ERROR) >>,
         <<1, 2, 3, 4, 5, 6, 7>>)

\* MPI_comm_irecv._sympystr on a class whose `request` is args[4] and whose
\* `comm` is args[3].
MPI_comm_irecv_sympystr_comm_last(self) ==
    Call("MPI_irecv",
         << Arg(self, 0), count_of(self, 0), datatype_of(self, 0),
            Arg(self, 1), Arg(self, 2), Arg(self, 3), Arg(self, 4),
            Ok(MPI_ERROR) >>,
         <<1, 2, 3, 4, 5, 6, 7, 8>>)

MPI_comm_irecv_sympystr(self) ==
    Call("MPI_irecv",
         << Arg(self, 0), count_of(self, 0), datatype_of(self, 0),
            Arg(self, 1), Arg(self, 2), Arg(self, 4), Arg(self, 3),
            Ok(MPI_ERROR) >>,
         <<1, 2, 3, 4, 5, 6, 7, 8>>)

MPI_comm_isend_sympystr(self) ==
    Call("MPI_isend",
         << Arg(self, 0), count_of(self, 0), datatype_of(self, 0),
            Arg(self, 1), Arg(self, 2), Arg(self, 4), Arg(self, 3),
            Ok(MPI_ERROR) >>,
         <<1, 2, 3, 4, 5, 6, 7, 8>>)

\* MPI_comm_sendrecv._sympystr on a class whose recvcount and recvdatatype
\* read senddata.
MPI_comm_sendrecv_sympystr_send_twice(self) ==
    Call("MPI_sendrecv",
         << Arg(self, 0), Arg(self, 3),
            count_of(self, 0), count_of(self, 0),
            datatype_of(self, 0), datatype_of(self, 0),
            Arg(self, 1), Arg(self, 4), Arg(self, 2), Arg(self, 5),
            Arg(self, 6), Ok(MPI_ERROR), Ok(MPI_STATUS) >>,
         <<1, 3, 5, 7, 9, 2, 4, 6, 8, 10, 11, 13, 12>>)

\* MPI_comm_sendrecv._sympystr taking count and datatype of the send buffer
\* before those of the receive buffer.
MPI_comm_sendrecv_sympystr_buffer_wise(self) ==
    Call("MPI_sendrecv",
         << Arg(self, 0), Arg(self, 3),
            count_of(self, 0), datatype_of(self, 0),
            count_of(self, 3), datatype_of(self, 3),
            Arg(self, 1), Arg(self, 4), Arg(self, 2), Arg(self, 5),
            Arg(self, 6), Ok(MPI_ERROR), Ok(MPI_STATUS) >>,
         <<1, 3, 4, 7, 9, 2, 5, 6, 8, 10, 11, 13, 12>>)

MPI_comm_sendrecv_sympystr(self) ==
    Call("MPI_sendrecv",
         << Arg(self, 0), Arg(self, 3),
            count_of(self, 0), count_of(self, 3),
            datatype_of(self, 0), datatype_of(self, 3),
            Arg(self, 1), Arg(self, 4), Arg(self, 2), Arg(self, 5),
            Arg(self, 6), Ok(MPI_ERROR), Ok(MPI_STATUS) >>,
         <<1, 3, 5, 7, 9, 2, 4, 6, 8, 10, 11, 13, 12>>)

MPI_comm_sendrecv_replace_sympystr(self) ==
    Call("MPI_sendrecv_replace",
         << Arg(self, 0), count_of(self, 0), datatype_of(self, 0),
            Arg(self, 1), Arg(self, 3), Arg(self, 2), Arg(self, 4),
            Arg(self, 5), Ok(MPI_ERROR), Ok(MPI_STATUS) >>,
         <<1, 2, 3, 4, 6, 5, 7, 8, 10, 9>>)

\* MPI_waitall._sympystr on a class whose `requests` is args[1] and whose
\* `status` is args[0].
MPI_waitall_sympystr_status_first(self) ==
    Call("MPI_waitall",
         << Arg(self, 1), count_of(self, 0), Arg(self, 0), Ok(MPI_ERROR) >>,
         <<2, 1, 3, 4>>)

MPI_waitall_sympystr(self) ==
    Call("MPI_waitall",
         << Arg(self, 0), count_of(self, 0), Arg(self, 1), Ok(MPI_ERROR) >>,
         <<2, 1, 3, 4>>)

\* MPI_comm_barrier._sympystr written as the calls around it are:
\* 'MPI_barrier (comm, ierr)'.
MPI_comm_barrier_sympystr_call(self) ==
    Call("MPI_barrier", << Arg(self, 0), Ok(MPI_ERROR) >>, <<1, 2>>)

MPI_comm_barrier_sympystr(self) == Property("barrier", Arg(self, 0))

MPI_comm_bcast_sympystr(self) ==
    Call("MPI_bcast",
         << Arg(self, 0), count_of(self, 0), datatype_of(self, 0),
            Arg(self, 1), Arg(self, 2), Ok(MPI_ERROR) >>,
         <<1, 2, 3, 4, 5, 6>>)

MPI_comm_scatter_sympystr(self) ==
    Call("MPI_scatter",
         << Arg(self, 0), Arg(self, 1),
            count_of(self, 0), count_of(self, 1),
            datatype_of(self, 0), datatype_of(self, 1),
            Arg(self, 2), Arg(self, 3), Ok(MPI_ERROR) >>,
         <<1, 3, 5, 2, 4, 6, 7, 8, 9>>)

\* MPI_comm_gather._sympystr with an error variable of its own,
\* ierr = Variable('int', 'i_mpi_error'), made at each call.
MPI_comm_gather_sympystr_own_error(self) ==
    Call("MPI_gather",
         << Arg(self, 0), Arg(self, 1),
            count_of(self, 0), count_of(self, 1),
            datatype_of(self, 0), datatype_of(self, 1),
            Arg(self, 2), Arg(self, 3), Ok([MPI_ERROR EXCEPT !.oid = 0]) >>,
         <<1, 3, 5, 2, 4, 6, 7, 8, 9>>)

MPI_comm_gather_sympystr(self) ==
    Call("MPI_gather",
         << Arg(self, 0), Arg(self, 1),
            count_of(self, 0), count_of(self, 1),
            datatype_of(self, 0), datatype_of(self, 1),
            Arg(self, 2), Arg(self, 3), Ok(MPI_ERROR) >>,
         <<1, 3, 5, 2, 4, 6, 7, 8, 9>>)

\* Rendering dispatches on the class of the node.
sympystr(self) ==
    CASE self.kind = "MPI_comm_size" -> MPI_comm_size_sympystr(self)
      [] self.kind = "MPI_comm_rank" -> MPI_comm_rank_sympystr(self)
      [] self.kind = "MPI_comm_recv" -> MPI_comm_recv_sympystr(self)
      [] self.kind = "MPI_comm_send" -> MPI_comm_send_sympystr(self)
      [] self.kind = "MPI_comm_irecv" -> MPI_comm_irecv_sympystr(self)
      [] self.kind = "MPI_comm_isend" -> MPI_comm_isend_sympystr(self)
      [] self.kind = "MPI_comm_sendrecv" -> MPI_comm_sendrecv_sympystr(self)
      [] self.kind = "MPI_comm_sendrecv_replace" ->
             MPI_comm_sendrecv_replace_sympystr(self)
      [] self.kind = "MPI_waitall" -> MPI_waitall_sympystr(self)
      [] self.kind = "MPI_comm_barrier" -> MPI_comm_barrier_sympystr(self)
      [] self.kind = "MPI_comm_bcast" -> MPI_comm_bcast_sympystr(self)
      [] self.kind = "MPI_comm_scatter" -> MPI_comm_scatter_sympystr(self)
      [] self.kind = "MPI_comm_gather" -> MPI_comm_gather_sympystr(self)

\* ------------------------------------------------- what the front end builds
NoShape == [form |-> "None", ext |-> <<>>]

\* The variables of the docstrings, and buffers of the other kinds.
x == Variable("NativeDouble", "x", [form |-> "tuple", ext |-> <<Sym("n"), Lit(2)>>])
requests == Variable("NativeInteger", "requests", [form |-> "scalar", ext |-> <<Lit(4)>>])
stats == Variable("NativeInteger", "stats", [form |-> "tuple", ext |-> <<Sym("m"), Lit(4)>>])
c == Variable("NativeCharacter", "c", [form |-> "tuple", ext |-> <<Sym("n")>>])
z == IndexedElement(
         IndexedVariable("NativeComplex", "z", [form |-> "tuple", ext |-> <<Lit(2), Sym("m")>>]),
         <<Lit(0)>>)
s == Variable("NativeFloat", "s", NoShape)
b == Variable("NativeBool", "b", [form |-> "tuple", ext |-> <<Lit(2), Lit(3)>>])
dest == Variable("NativeInteger", "dest", NoShape)
source == Variable("NativeInteger", "source", NoShape)
tag == Variable("NativeInteger", "tag", NoShape)
sendtag == Variable("NativeInteger", "sendtag", NoShape)
recvtag == Variable("NativeInteger", "recvtag", NoShape)
root == Variable("NativeInteger", "root", NoShape)

Buffers == {x, requests, s, b, c, z, Integer(5)}
\* One buffer of each outcome: rendered, no datatype, no shape.
SomeBuffers == {x, c, Integer(5)}
BufferPairs == {<<x, requests>>, <<c, Integer(5)>>, <<z, s>>}
Comms == {MPI_comm_world}

\* super().__new__(cls, *args, **options): every class hands its operands,
\* as given, to the constructor it inherits; the node keeps them in `args`.
New(cls, args) == [kind |-> cls, args |-> args]

\* The constructor calls of the front end, as <<class, operands>>.  The last
\* two lines are calls of MPI_comm_send without a communicator and with an
\* integer in its place.
Constructions ==
    {<<"MPI_comm_size", <<cm>> >> : cm \in Comms}
    \cup {<<"MPI_comm_rank", <<cm>> >> : cm \in Comms}
    \cup {<<"MPI_comm_barrier", <<cm>> >> : cm \in Comms}
    \cup {<<"MPI_comm_recv", <<d, source, tag, cm>> >> : d \in SomeBuffers, cm \in Comms}
    \cup {<<"MPI_comm_send", <<d, dest, tag, cm>> >> : d \in Buffers, cm \in Comms}
    \cup {<<"MPI_comm_irecv", <<d, source, tag, requests, cm>> >> : d \in SomeBuffers, cm \in Comms}
    \cup {<<"MPI_comm_isend", <<d, dest, tag, requests, cm>> >> : d \in SomeBuffers, cm \in Comms}
    \cup {<<"MPI_comm_sendrecv", <<p[1], dest, sendtag, p[2], source, recvtag, cm>> >> :
             p \in BufferPairs, cm \in Comms}
    \cup {<<"MPI_comm_sendrecv_replace", <<d, dest, sendtag, source, recvtag, cm>> >> :
             d \in SomeBuffers, cm \in Comms}
    \cup {<<"MPI_waitall", <<d, stats>> >> : d \in SomeBuffers \cup {requests}}
    \cup {<<"MPI_comm_bcast", <<d, root, cm>> >> : d \in SomeBuffers, cm \in Comms}
    \cup {<<"MPI_comm_scatter", <<p[1], p[2], root, cm>> >> : p \in BufferPairs, cm \in Comms}
    \cup {<<"MPI_comm_gather", <<p[1], p[2], root, cm>> >> : p \in BufferPairs, cm \in Comms}
    \cup {<<"MPI_comm_send", <<x, dest, tag>> >>}
    \cup {<<"MPI_comm_send", <<x, dest, tag, Integer(5)>> >>}

\* Variable('int', 'i_mpi_error') and Variable(MPI_status_type(), 'i_mpi_status'):
\* the two objects made when the module is imported; oid tells one object
\* from another that has the same name and datatype.
i_mpi_error ==
    [kind |-> "Variable", name |-> "i_mpi_error", dtype |-> "NativeInteger",
     shape |-> NoShape, oid |-> 1]
i_mpi_status ==
    [kind |-> "Variable", name |-> "i_mpi_status", dtype |-> "MPI_status_type",
     shape |-> NoShape, oid |-> 2]

\* ---------------------------------------------------------------- actions
\* Module import: the two globals are bound, once, to one variable each.
Init ==
    /\ MPI_ERROR = i_mpi_error
    /\ MPI_STATUS = i_mpi_status
    /\ registry = {}
    /\ first = <<>>
    /\ out = None
    /\ expr = None
    /\ count = None
    /\ wtype = None

\* The front end constructs a node: cls(*args).
Construct(cls, args) ==
    /\ Cardinality(registry) < MaxOps
    /\ New(cls, args) \notin registry
    /\ registry' = registry \cup {New(cls, args)}
    /\ UNCHANGED <<MPI_ERROR, MPI_STATUS, first, out, expr, count, wtype>>

\* Render that leaves MPI_ERROR bound to a new variable after each call.
Render_rebinding(op) ==
    LET res == sympystr(op) IN
    /\ out' = [op |-> op, res |-> res]
    /\ first' = IF \E i \in DOMAIN first : first[i].op = op THEN first
                ELSE Append(first, [op |-> op, res |-> res])
    /\ MPI_ERROR' = [MPI_ERROR EXCEPT !.oid = @ + 2]
    /\ UNCHANGED <<MPI_STATUS, registry, expr, count, wtype>>

\* The printer renders a node: op._sympystr(printer).
Render(op) ==
    LET res == sympystr(op) IN
    /\ out' = [op |-> op, res |-> res]
    /\ first' = IF \E i \in DOMAIN first : first[i].op = op THEN first
                ELSE Append(first, [op |-> op, res |-> res])
    /\ UNCHANGED <<MPI_ERROR, MPI_STATUS, registry, expr, count, wtype>>

Next ==
    \/ \E cn \in Constructions : Construct(cn[1], cn[2])
    \/ \E op \in registry : Render(op)

Spec == Init /\ [][Next]_vars

\* ------------------------------------------- the two functions on their own
InitPure ==
    /\ Init!1 /\ Init!2 /\ Init!3 /\ Init!4 /\ Init!5
    /\ expr \in AllExprs
    /\ count = None
    /\ wtype = None

\* count = get_shape(expr)
ApplyGetShape ==
    /\ count = None
    /\ count' = get_shape(expr)
    /\ UNCHANGED <<MPI_ERROR, MPI_STATUS, registry, first, out, expr, wtype>>

\* wtype = mpi_datatype(expr.dtype)
ApplyDatatype ==
    /\ wtype = None
    /\ "dtype" \in DOMAIN expr
    /\ wtype' = mpi_datatype(expr.dtype)
    /\ UNCHANGED <<MPI_ERROR, MPI_STATUS, registry, first, out, expr, count>>

NextPure == ApplyGetShape \/ ApplyDatatype

SpecPure == InitPure /\ [][NextPure]_vars

\* ================================================================ claims
\* What the claims speak of, stated without the operators above.

\* The five datatypes with an MPI name, and that name.
Mapped == {"NativeInteger", "NativeFloat", "NativeDouble", "NativeBool", "NativeComplex"}
WireTag ==
    [d \in Mapped |->
        CASE d = "NativeInteger" -> "MPI_INT"
          [] d = "NativeFloat" -> "MPI_REAL"
          [] d = "NativeDouble" -> "MPI_DOUBLE"
          [] d = "NativeBool" -> "MPI_LOGICAL"
          [] d = "NativeComplex" -> "MPI_COMPLEX"]
TagOf(d) == [kind |-> "str", name |-> WireTag[d]]

RECURSIVE Power(_, _)
Power(a, k) == IF k = 0 THEN 1 ELSE a * Power(a, k - 1)

RECURSIVE EvalExps(_, _, _)
EvalExps(exps, v, S) ==
    IF S = {} THEN 1
    ELSE LET t == CHOOSE u \in S : TRUE IN
         Power(v[t], exps[t]) * EvalExps(exps, v, S \ {t})

\* The integer a monomial denotes when the symbols have the values v.
Eval(e, v) == e.coef * EvalExps(e.exps, v, Syms)

\* The product of the values of the extents, last extent first.
RECURSIVE ProductOfExtents(_, _)
ProductOfExtents(ext, v) ==
    IF ext = <<>> THEN 1
    ELSE Eval(ext[Len(ext)], v) * ProductOfExtents(SubSeq(ext, 1, Len(ext) - 1), v)

Valuations == [Syms -> 1..3]

\* The node is a variable or an element of one, and so has an element count.
Resolvable(d) == d.kind \in {"Variable", "IndexedVariable", "IndexedElement"}

\* The element count a buffer of the front end has: its extents multiplied
\* out, an indexed element counted as its base.
CountOf(d) ==
    LET v == IF d.kind = "IndexedElement" THEN d.base ELSE d
        sh == v.shape
        lits == {i \in DOMAIN sh.ext : sh.ext[i].exps = NoExps}
        RECURSIVE LitProduct(_)
        LitProduct(I) ==
            IF I = {} THEN 1
            ELSE LET i == CHOOSE j \in I : TRUE IN sh.ext[i].coef * LitProduct(I \ {i})
    IN  IF LitProduct(lits) = 0 THEN Lit(0)
        ELSE [coef |-> LitProduct(lits),
              exps |-> [t \in Syms |-> Cardinality({i \in DOMAIN sh.ext : sh.ext[i] = Sym(t)})]]

Rendered == out # None /\ out.res.status = "ok"

\* C1: rendering MPI_comm_send(data, dest, tag, comm), data a buffer with an
\* element count and a mapped datatype, gives the call MPI_send with exactly
\* the seven arguments data, count(data), type(data), dest, tag, comm, ERROR;
\* for x of shape (n,2) and datatype double they are
\* x, 2*n, MPI_DOUBLE, dest, tag, comm, ERROR.
C1_SendArguments ==
    (out # None /\ out.op.kind = "MPI_comm_send" /\ Len(out.op.args) = 4
       /\ Resolvable(out.op.args[1]) /\ out.op.args[1].dtype \in Mapped)
    => /\ out.res = [status |-> "ok", form |-> "call", name |-> "MPI_send",
                     args |-> << out.op.args[1], CountOf(out.op.args[1]),
                                 TagOf(out.op.args[1].dtype), out.op.args[2],
                                 out.op.args[3], out.op.args[4], i_mpi_error >>]
       /\ out.op.args[1] = x =>
              out.res.args = << x, [coef |-> 2, exps |-> [n |-> 1, m |-> 0]],
                                [kind |-> "str", name |-> "MPI_DOUBLE"],
                                out.op.args[2], out.op.args[3], out.op.args[4],
                                i_mpi_error >>

C1_Witness ==
    /\ out # None /\ out.op = New("MPI_comm_send", <<x, dest, tag, MPI_comm_world>>)
    /\ out.res.status = "ok" /\ Len(out.res.args) = 7

\* C3: mpi_datatype gives NativeInteger, NativeFloat, NativeDouble, NativeBool
\* and NativeComplex the names MPI_INT, MPI_REAL, MPI_DOUBLE, MPI_LOGICAL and
\* MPI_COMPLEX, five different names, and raises for every other datatype
\* (the character and the status datatype among them).
C3_DatatypeMapper ==
    /\ wtype # None =>
          /\ expr.dtype \in Mapped => wtype = Ok(TagOf(expr.dtype))
          /\ expr.dtype \notin Mapped => wtype = UnsupportedType
    /\ Cardinality({WireTag[d] : d \in Mapped}) = 5

C3_Witness ==
    /\ wtype = UnsupportedType /\ expr.dtype = "NativeCharacter"

\* C4: for a Variable or IndexedVariable, get_shape is the product of all the
\* extents of its shape: 1 without a shape, the extent when the shape is one
\* extent, the product of every extent of a tuple (2*n for (n,2)); whatever
\* values the symbols have, it denotes the product of the extents' values, and
\* every symbolic extent is a factor exactly as often as it occurs.
C4_CountIsProduct ==
    (count # None /\ expr.kind \in {"Variable", "IndexedVariable"})
    => /\ count.status = "ok"
       /\ \A v \in Valuations : Eval(count.val, v) = ProductOfExtents(expr.shape.ext, v)
       /\ expr.shape.form = "None" => count.val = Lit(1)
       /\ expr.shape.form = "scalar" => count.val = expr.shape.ext[1]
       /\ count.val = CountOf(expr)

C4_Witness ==
    /\ expr.kind = "Variable"
    /\ expr.shape = [form |-> "tuple", ext |-> <<Sym("n"), Lit(2)>>]
    /\ count = Ok([coef |-> 2, exps |-> [n |-> 1, m |-> 0]])

\* C2: no MPI_comm_send node exists whose communicator is missing or is not a
\* communicator: constructing one fails, so none is there to be rendered.
C2_NoMalformedSend ==
    \A op \in registry :
        op.kind = "MPI_comm_send" =>
            /\ Len(op.args) = 4
            /\ op.args[4].kind = "MPI_comm_world"

\* The classes whose rendering has a status argument.
StatusClasses == {"MPI_comm_recv", "MPI_comm_sendrecv", "MPI_comm_sendrecv_replace"}

\* C5: MPI_STATUS is an argument of a rendering only for MPI_comm_recv,
\* MPI_comm_sendrecv and MPI_comm_sendrecv_replace, where it is the argument
\* right before MPI_ERROR, the last one; a rendering of MPI_comm_send (or of
\* any other class) has no status argument.
C5_StatusBeforeError ==
    Rendered =>
        LET a == out.res.args
            P == {i \in DOMAIN a : a[i] = i_mpi_status}
        IN  /\ out.op.kind \in StatusClasses =>
                  /\ P = {Len(a) - 1}
                  /\ a[Len(a)] = i_mpi_error
            /\ out.op.kind \notin StatusClasses => P = {}

C5_Witness ==
    /\ Rendered /\ out.op.kind = "MPI_comm_recv"
    /\ out.res.args[7] = i_mpi_status /\ out.res.args[8] = i_mpi_error

\* C6: a rendering of MPI_comm_isend(data, dest, tag, req, comm) or
\* MPI_comm_irecv(data, source, tag, req, comm) has exactly the eight
\* arguments data, count, type, dest or source, tag, comm, req, ERROR: the
\* request (the fourth operand) right after the communicator and right
\* before ERROR, and no status argument.
C6_RequestBeforeError ==
    (Rendered /\ out.op.kind \in {"MPI_comm_isend", "MPI_comm_irecv"}) =>
        LET a == out.res.args
            o == out.op.args
        IN  /\ a = << o[1], CountOf(o[1]), TagOf(o[1].dtype), o[2], o[3],
                      o[5], o[4], i_mpi_error >>
            /\ Len(a) = 8 /\ a[7] = o[4] /\ a[6] = o[5] /\ a[8] = i_mpi_error
            /\ \A i \in DOMAIN a : a[i] # i_mpi_status

C6_Witness ==
    /\ Rendered /\ out.op.kind = "MPI_comm_irecv"
    /\ out.res.args[7] = requests /\ out.res.args[6] = MPI_comm_world
    /\ requests # MPI_comm_world

\* The operands (counted from 1) a class takes the count of, and those it
\* takes the datatype of.
CountSlots(kind) ==
    CASE kind \in {"MPI_comm_send", "MPI_comm_recv", "MPI_comm_isend", "MPI_comm_irecv",
                   "MPI_comm_sendrecv_replace", "MPI_comm_bcast", "MPI_waitall"} -> {1}
      [] kind = "MPI_comm_sendrecv" -> {1, 4}
      [] kind \in {"MPI_comm_scatter", "MPI_comm_gather"} -> {1, 2}
      [] OTHER -> {}
TypeSlots(kind) == IF kind = "MPI_waitall" THEN {} ELSE CountSlots(kind)

\* Some count of the node cannot be derived, or some datatype has no MPI name.
Fails(op) ==
    \/ \E i \in CountSlots(op.kind) : ~Resolvable(op.args[i])
    \/ \E i \in TypeSlots(op.kind) :
           Resolvable(op.args[i]) /\ op.args[i].dtype \notin Mapped

\* C7: when a count cannot be derived or a datatype has no MPI name, the
\* rendering of that node ends with that exception and yields nothing: no
\* call name and no argument, not a shorter list, not a default in the place
\* of the count or of the datatype.
C7_NoPartialOutput ==
    (out # None /\ Fails(out.op)) =>
        /\ out.res \in {UnresolvableShape, UnsupportedType}
        /\ DOMAIN out.res \cap {"form", "name", "args"} = {}

C7_Witness ==
    /\ out # None /\ out.op.kind = "MPI_comm_sendrecv"
    /\ out.op.args[1] = c /\ out.res.status = "raise"

\* C8: whatever was rendered before, of this node or of others, rendering a
\* node again gives what its first rendering gave; rendering leaves the two
\* globals and the nodes as they were.
C8_RenderAgain ==
    /\ out # None =>
          \E i \in DOMAIN first : first[i].op = out.op /\ first[i].res = out.res
    /\ \A i \in DOMAIN first : first[i].op \in registry
    /\ MPI_ERROR = i_mpi_error /\ MPI_STATUS = i_mpi_status

\* The node rendered first is rendered again after another node was.
C8_Witness ==
    /\ Len(first) >= 2 /\ out # None /\ out.op = first[1].op
    /\ out.res.status = "ok" /\ out.res = first[1].res

\* The classes rendered as a call with an argument list.
CallClasses ==
    {"MPI_comm_send", "MPI_comm_recv", "MPI_comm_isend", "MPI_comm_irecv",
     "MPI_comm_sendrecv", "MPI_comm_sendrecv_replace", "MPI_waitall",
     "MPI_comm_bcast", "MPI_comm_scatter", "MPI_comm_gather"}

\* C9 as claimed: every rendering, of each of the thirteen classes, has the
\* one MPI_ERROR among its arguments.
C9_ErrorInEveryRendering ==
    Rendered => \E i \in DOMAIN out.res.args : out.res.args[i] = i_mpi_error

\* C9, amended: every rendering of the ten classes rendered as a call has the
\* one MPI_ERROR object as its last argument, once, and no other object of
\* that name; a rendering of MPI_comm_barrier, MPI_comm_size or MPI_comm_rank
\* has no error argument.
C9_ErrorLastInCalls ==
    Rendered =>
        LET a == out.res.args
            E == {i \in DOMAIN a : "name" \in DOMAIN a[i] /\ a[i].name = "i_mpi_error"}
        IN  /\ out.op.kind \in CallClasses =>
                  /\ E = {Len(a)}
                  /\ a[Len(a)] = i_mpi_error
                  /\ MPI_ERROR = i_mpi_error
            /\ out.op.kind \notin CallClasses => E = {}

C9_Witness ==
    /\ Rendered /\ out.op.kind = "MPI_comm_gather"
    /\ Len(out.res.args) = 9 /\ out.res.args[9] = i_mpi_error

\* C10: MPI_comm_size(comm) and MPI_comm_rank(comm) are both rendered as a
\* property of their communicator, comm.size and comm.rank, without any
\* argument.
C10_PropertyQuery ==
    (Rendered /\ out.op.kind \in {"MPI_comm_size", "MPI_comm_rank"}) =>
        /\ out.res.form = "property"
        /\ out.res.name = (IF out.op.kind = "MPI_comm_size" THEN "size" ELSE "rank")
        /\ out.res.scope = out.op.args[1]
        /\ out.res.args = <<>>

\* C11: when MPI_comm_isend or MPI_comm_irecv was rendered with the request r
\* and MPI_waitall is rendered later with the same r, the request argument
\* of the first and the requests argument of the second are that r,
\* unchanged, and the arguments of MPI_waitall are exactly
\* count(r), r, status, ERROR.
C11_RequestThreaded ==
    \A i, j \in DOMAIN first :
        (/\ i < j
         /\ first[i].op.kind \in {"MPI_comm_isend", "MPI_comm_irecv"}
         /\ first[j].op.kind = "MPI_waitall"
         /\ first[i].res.status = "ok"
         /\ first[i].op.args[4] = first[j].op.args[1])
        => LET r == first[i].op.args[4] IN
           /\ first[i].res.args[7] = r
           /\ first[j].res = [status |-> "ok", form |-> "call", name |-> "MPI_waitall",
                              args |-> << CountOf(r), r, first[j].op.args[2],
                                          i_mpi_error >>]
           /\ first[j].res.args[2] = first[i].res.args[7]

C11_Witness ==
    /\ Len(first) = 2
    /\ first[1].op.kind = "MPI_comm_isend" /\ first[1].res.status = "ok"
    /\ first[2].op = New("MPI_waitall", <<requests, stats>>)
    /\ first[2].res.status = "ok"
    /\ first[1].res.args[7] = requests /\ first[2].res.args[2] = requests
    /\ out # None /\ out.op = first[2].op

\* C12: whatever the indices of an IndexedElement are, get_shape gives the
\* count of its base, the product of all the extents of the base, not a
\* count the indices reduce.
C12_IndexedCountIsBaseCount ==
    (count # None /\ expr.kind = "IndexedElement")
    => /\ count = Ok(CountOf(expr.base))
       /\ \A v \in Valuations :
              Eval(count.val, v) = ProductOfExtents(expr.base.shape.ext, v)

C12_Witness ==
    /\ expr.kind = "IndexedElement"
    /\ expr.indices = <<Lit(1), Sym("m")>>
    /\ expr.base.shape = [form |-> "tuple", ext |-> <<Sym("n"), Lit(2)>>]
    /\ count = Ok([coef |-> 2, exps |-> [n |-> 1, m |-> 0]])

\* C13: get_shape of what is neither a Variable, an IndexedVariable nor an
\* IndexedElement (an integer literal, a communicator, a constant of this
\* module) raises the TypeError of its first test and gives no count, not 1
\* and not another default.
C13_OtherKindsRaise ==
    (count # None /\ ~Resolvable(expr))
    => /\ count = UnresolvableShape
       /\ "val" \notin DOMAIN count

C13_Witness ==
    /\ expr = Integer(5) /\ count = UnresolvableShape

\* C14: MPI_comm_barrier(comm) is rendered as comm.barrier, a call without
\* arguments on its communicator; no rendering of a class that carries a
\* buffer is without arguments or of that form.
C14_BarrierShape ==
    Rendered =>
        /\ out.op.kind = "MPI_comm_barrier" =>
              /\ out.res.form = "property" /\ out.res.name = "barrier"
              /\ out.res.scope = out.op.args[1]
              /\ out.res.args = <<>>
        /\ out.op.kind \in CallClasses =>
              /\ out.res.form = "call"
              /\ Len(out.res.args) > 0

C14_Witness ==
    /\ Rendered /\ out.op = New("MPI_comm_barrier", <<MPI_comm_world>>)
    /\ out.res.args = <<>> /\ out.res.scope = MPI_comm_world

\* C15: a rendering of MPI_comm_sendrecv(sData, dest, sTag, rData, src, rTag,
\* comm) has exactly the thirteen arguments sData, count(sData), type(sData),
\* dest, sTag, rData, count(rData), type(rData), src, rTag, comm, STATUS,
\* ERROR, each count and type taken from its own buffer, also when the two
\* buffers differ in shape and datatype.
C15_SendRecvArguments ==
    (Rendered /\ out.op.kind = "MPI_comm_sendrecv") =>
        LET o == out.op.args IN
        out.res = [status |-> "ok", form |-> "call", name |-> "MPI_sendrecv",
                   args |-> << o[1], CountOf(o[1]), TagOf(o[1].dtype), o[2], o[3],
                               o[4], CountOf(o[4]), TagOf(o[4].dtype), o[5], o[6],
                               o[7], i_mpi_status, i_mpi_error >>]

C15_Witness ==
    /\ Rendered /\ out.op.kind = "MPI_comm_sendrecv"
    /\ out.op.args[1] = x /\ out.op.args[4] = requests
    /\ out.res.args[2] = [coef |-> 2, exps |-> [n |-> 1, m |-> 0]]
    /\ out.res.args[7] = Lit(4)
    /\ out.res.args[3].name = "MPI_DOUBLE" /\ out.res.args[8].name = "MPI_INT"
    /\ Len(out.res.args) = 13

\* Some operand the class takes the count of has none.
Unresolvable(op) == \E i \in CountSlots(op.kind) : ~Resolvable(op.args[i])

\* C16: every class takes all its counts before any datatype, so a node with
\* a buffer that has no count fails with the TypeError of get_shape, also
\* when another buffer has a datatype without MPI name: MPI_comm_sendrecv
\* with a character send buffer and an integer literal as receive buffer
\* reports the missing shape, not the uncovered datatype.
C16_ShapeErrorFirst ==
    (out # None /\ Unresolvable(out.op)) => out.res = UnresolvableShape

C16_Witness ==
    /\ out # None /\ out.op.kind = "MPI_comm_sendrecv"
    /\ out.op.args[1] = c /\ out.op.args[4] = Integer(5)
    /\ out.res = UnresolvableShape /\ out.res # UnsupportedType

====
